---------------------------- MODULE Spec2Model ----------------------------
(***************************************************************************)
(* libobs-metal-Bridging-Header.h: nine #import directives followed by two *)
(* file-scope declarations,                                                *)
(*                                                                         *)
(*     static const char *device_name = "Metal";                           *)
(*     static const char *preprocessor_name = "_Metal";                    *)
(*                                                                         *)
(* The model follows each compilation unit that imports the header: the    *)
(* header is processed directive by directive (pc), every declaration      *)
(* creates the unit's own pointer object and the string literal it is      *)
(* initialised with, and once every unit is compiled the program runs: a   *)
(* consumer reads one of the two names (Read), or importer code            *)
(* assigns to an l-value the declarations give it (Store), an assignment   *)
(* the compiler accepts or rejects by the qualifiers of lines 19-20.       *)
(***************************************************************************)
EXTENDS Naturals, Sequences, FiniteSets, TLC

\* Number of compilation units that import the header.
NumUnits == 2

Units == 1..NumUnits

\* The terminating null character of a C string.
NUL == "NUL"

\* The literal of line 19 spelt in lower case.
DeviceNameLower == <<"m", "e", "t", "a", "l">>

\* Line 19: the characters of the literal "Metal".
DeviceNameLiteral == <<"M", "e", "t", "a", "l">>

\* The literal of line 20 without its leading underscore.
PreprocessorNameNoUnderscore == <<"M", "e", "t", "a", "l">>

\* Line 20: the characters of the literal "_Metal".
PreprocessorNameLiteral == <<"_", "M", "e", "t", "a", "l">>

\* Lines 8-17: the #import directives, in order.
Imports ==
    << "util/base.h", "util/cf-parser.h", "util/cf-lexer.h",
       "graphics/graphics.h", "graphics/device-exports.h", "graphics/vec2.h",
       "graphics/matrix3.h", "graphics/matrix4.h", "graphics/shader-parser.h" >>

\* Lines 19-20: the declarations.  `static const char *x = "..."` has internal
\* linkage, a const-qualified pointee and a pointer that is not const-qualified.
Declarations ==
    << [kind |-> "decl", name |-> "device_name", storage |-> "static",
        pointee_const |-> TRUE, pointer_const |-> FALSE,
        init |-> DeviceNameLiteral],
       [kind |-> "decl", name |-> "preprocessor_name", storage |-> "static",
        pointee_const |-> TRUE, pointer_const |-> FALSE,
        init |-> PreprocessorNameLiteral] >>

\* A header with one more declaration after line 20.
HeaderExtraDecl ==
    [i \in 1..Len(Imports) |-> [kind |-> "import", name |-> Imports[i]]]
      \o Declarations
      \o << [kind |-> "decl", name |-> "shader_suffix", storage |-> "static",
             pointee_const |-> TRUE, pointer_const |-> FALSE,
             init |-> <<"m", "s", "l">>] >>

\* Lines 8-20: the header, one item per directive or declaration.
Header ==
    [i \in 1..Len(Imports) |-> [kind |-> "import", name |-> Imports[i]]]
      \o Declarations

Names == {"device_name", "preprocessor_name"}

\* The declaration of each name.
Qualifiers ==
    [n \in Names |-> CHOOSE d \in {Header[i] : i \in 1..Len(Header)} :
                         d.kind = "decl" /\ d.name = n]

Decl(n) == Qualifiers[n]

\* Pointer values: the null pointer, and the value of a name not declared yet.
NullPtr == [obj |-> "NULL", off |-> 0]
Undeclared == [obj |-> "undeclared", off |-> 0]

\* The consumer has read nothing yet.
None == [obj |-> "none", off |-> 0]

\* The string literal object a declaration's initialiser creates.
LiteralObject(n) == "literal:" \o n

\* The array a string literal occupies: its characters and the terminator.
LiteralArray(chars) == chars \o <<NUL>>

VARIABLES
    pc,                 \* pc[u]: items of the header unit u has processed
    imported,           \* imported[u]: files unit u has imported
    symbols,            \* symbols[u]: identifiers the header declared in u
    device_name,        \* device_name[u]: unit u's pointer object
    preprocessor_name,  \* preprocessor_name[u]: unit u's pointer object
    mem,                \* mem[u]: unit u's string literal objects
    observed            \* observed[u]: the pointer u's consumer last read

vars == <<pc, imported, symbols, device_name, preprocessor_name, mem, observed>>

Done(u) == pc[u] = Len(Header)

\* The program runs once every unit that imports the header is compiled.
Running == \A u \in Units : Done(u)

\* The C string an array holds from offset off: the characters before the
\* first terminator.
RECURSIVE StrAt(_, _)
StrAt(arr, off) ==
    IF off >= Len(arr) \/ arr[off + 1] = NUL
    THEN <<>>
    ELSE <<arr[off + 1]>> \o StrAt(arr, off + 1)

NoString == <<NUL>>

\* The text pointer p denotes in unit u (NoString for a pointer to no object).
Denotes(u, p) ==
    IF p.obj \in DOMAIN mem[u] THEN StrAt(mem[u][p.obj], p.off) ELSE NoString

\* Lines 19-20: the initialiser points at the first character of the literal.
InitialValue(d) == [obj |-> LiteralObject(d.name), off |-> 0]

\* The declarations with external linkage: one object for all units.
AliasesExtern(u) == Units

\* Lines 19-20: `static` gives every unit its own copy of both objects.
Aliases(u) ==
    IF \A i \in 1..Len(Declarations) : Declarations[i].storage = "static"
    THEN {u}
    ELSE Units

Init ==
    /\ pc = [u \in Units |-> 0]
    /\ imported = [u \in Units |-> {}]
    /\ symbols = [u \in Units |-> {}]
    /\ device_name = [u \in Units |-> Undeclared]
    /\ preprocessor_name = [u \in Units |-> Undeclared]
    /\ mem = [u \in Units |-> <<>>]
    /\ observed = [u \in Units |-> None]

\* Lines 8-17: #import includes the file once per unit.
ProcessImport(u) ==
    /\ pc[u] < Len(Header)
    /\ Header[pc[u] + 1].kind = "import"
    /\ imported' = [imported EXCEPT ![u] = @ \cup {Header[pc[u] + 1].name}]
    /\ pc' = [pc EXCEPT ![u] = @ + 1]
    /\ UNCHANGED <<symbols, device_name, preprocessor_name, mem, observed>>

\* Lines 19-20: a declaration creates the literal and the pointer object.
ProcessDecl(u) ==
    /\ pc[u] < Len(Header)
    /\ Header[pc[u] + 1].kind = "decl"
    /\ LET d == Header[pc[u] + 1]
           w == Aliases(u)
       IN  /\ symbols' = [symbols EXCEPT ![u] = @ \cup {d.name}]
           /\ mem' = [x \in Units |->
                        IF x \in w
                        THEN mem[x] @@ (LiteralObject(d.name) :> LiteralArray(d.init))
                        ELSE mem[x]]
           /\ device_name' = [x \in Units |->
                        IF x \in w /\ d.name = "device_name"
                        THEN InitialValue(d) ELSE device_name[x]]
           /\ preprocessor_name' = [x \in Units |->
                        IF x \in w /\ d.name = "preprocessor_name"
                        THEN InitialValue(d) ELSE preprocessor_name[x]]
    /\ pc' = [pc EXCEPT ![u] = @ + 1]
    /\ UNCHANGED <<imported, observed>>

\* The value of name n in unit u.
ValueOf(u, n) == IF n = "device_name" THEN device_name[u] ELSE preprocessor_name[u]

\* A consumer in unit u reads one of the two labels.
Read(u, n) ==
    /\ Running
    /\ observed' = [observed EXCEPT ![u] = ValueOf(u, n)]
    /\ UNCHANGED <<pc, imported, symbols, device_name, preprocessor_name, mem>>

\* The l-values the declarations give importer code: each pointer object and
\* each element of the array it points into.
LValues ==
    {[kind |-> "var", name |-> n, idx |-> 0] : n \in Names}
      \cup {[kind |-> "elem", name |-> n, idx |-> i] :
              n \in Names, i \in 0..Len(PreprocessorNameLiteral)}

\* An assignment is accepted only to an l-value that is not const-qualified.
Modifiable(lv) ==
    IF lv.kind = "var"
    THEN ~Decl(lv.name).pointer_const
    ELSE ~Decl(lv.name).pointee_const

\* Right-hand sides: the pointer expressions the header itself makes
\* available, and characters.
PtrExprs == {"NULL", "device_name", "preprocessor_name"}
Chars == {"M", "_"}

Eval(u, e) == IF e = "NULL" THEN NullPtr ELSE ValueOf(u, e)

\* The right-hand sides of the type of l-value lv.
RhsOf(lv) == IF lv.kind = "var" THEN PtrExprs ELSE Chars

\* Importer code in unit u assigns rhs to l-value lv.
Store(u, lv, rhs) ==
    /\ Running
    /\ Modifiable(lv)
    /\ IF lv.kind = "var"
       THEN /\ device_name' = [x \in Units |->
                   IF x \in Aliases(u) /\ lv.name = "device_name"
                   THEN Eval(u, rhs) ELSE device_name[x]]
            /\ preprocessor_name' = [x \in Units |->
                   IF x \in Aliases(u) /\ lv.name = "preprocessor_name"
                   THEN Eval(u, rhs) ELSE preprocessor_name[x]]
            /\ UNCHANGED mem
       ELSE /\ LET p == ValueOf(u, lv.name)
               IN  /\ p.obj \in DOMAIN mem[u]
                   /\ p.off + lv.idx < Len(mem[u][p.obj])
                   /\ mem' = [x \in Units |->
                        IF x \in Aliases(u)
                        THEN [mem[x] EXCEPT ![p.obj][p.off + lv.idx + 1] = rhs]
                        ELSE mem[x]]
            /\ UNCHANGED <<device_name, preprocessor_name>>
    /\ UNCHANGED <<pc, imported, symbols, observed>>

Next ==
    \/ \E u \in Units : ProcessImport(u)
    \/ \E u \in Units : ProcessDecl(u)
    \/ \E u \in Units, n \in Names : Read(u, n)
    \/ \E u \in Units, lv \in LValues : \E rhs \in RhsOf(lv) : Store(u, lv, rhs)

Spec == Init /\ [][Next]_vars

(***************************************************************************)
(* Properties                                                              *)
(***************************************************************************)

\* The initial pointer values of the two declarations.
DeviceNameInit == InitialValue(Decl("device_name"))
PreprocessorNameInit == InitialValue(Decl("preprocessor_name"))

\* C1: in the state the header's declaration of device_name leaves a unit
\* in, before any code of the unit has run, device_name denotes exactly the
\* five characters M e t a l, nothing before or after.
C1_DeviceNameIsMetal ==
    [][\A u \in Units :
          ("device_name" \notin symbols[u] /\ "device_name" \in symbols'[u]) =>
              /\ Denotes(u, device_name[u])' = <<"M", "e", "t", "a", "l">>
              /\ Len(Denotes(u, device_name[u]))' = 5]_vars

\* A unit in the state the declaration of line 19 leaves it in.
C1_Witness ==
    \E u \in Units :
        /\ "device_name" \in symbols[u]
        /\ device_name[u] = DeviceNameInit
        /\ Len(Denotes(u, device_name[u])) = 5

\* C2: in the state the header's declaration of preprocessor_name leaves a
\* unit in, before any code of the unit has run, preprocessor_name denotes
\* exactly the six characters _ M e t a l, the underscore first.
C2_PreprocessorNameIsUnderscoreMetal ==
    [][\A u \in Units :
          ("preprocessor_name" \notin symbols[u]
             /\ "preprocessor_name" \in symbols'[u]) =>
              /\ Denotes(u, preprocessor_name[u])' = <<"_", "M", "e", "t", "a", "l">>
              /\ Len(Denotes(u, preprocessor_name[u]))' = 6
              /\ Head(Denotes(u, preprocessor_name[u]))' = "_"]_vars

\* A unit in the state the declaration of line 20 leaves it in.
C2_Witness ==
    \E u \in Units :
        /\ "preprocessor_name" \in symbols[u]
        /\ preprocessor_name[u] = PreprocessorNameInit
        /\ Len(Denotes(u, preprocessor_name[u])) = 6

\* C3: in every state importer code can reach, both variables still hold
\* their initial pointers and still denote "Metal" and "_Metal": neither the
\* variable nor the text can be changed.
C3_Immutable ==
    \A u \in Units :
        Done(u) =>
            /\ device_name[u] = DeviceNameInit
            /\ preprocessor_name[u] = PreprocessorNameInit
            /\ Denotes(u, device_name[u]) = DeviceNameLiteral
            /\ Denotes(u, preprocessor_name[u]) = PreprocessorNameLiteral

\* The part of C3 the qualifiers do enforce: the characters of a string
\* literal, once created, never change.
LiteralsIntact ==
    \A u \in Units :
        /\ LiteralObject("device_name") \in DOMAIN mem[u] =>
               mem[u][LiteralObject("device_name")] = LiteralArray(DeviceNameLiteral)
        /\ LiteralObject("preprocessor_name") \in DOMAIN mem[u] =>
               mem[u][LiteralObject("preprocessor_name")]
                   = LiteralArray(PreprocessorNameLiteral)

\* C4: the header holds only imports and the two declarations; processing it
\* can always take its next step until the header is finished, and the only
\* identifiers it leaves in a unit are device_name and preprocessor_name.
C4_NoOperations ==
    /\ \A i \in 1..Len(Header) : Header[i].kind \in {"import", "decl"}
    /\ \A u \in Units :
        /\ symbols[u] \subseteq Names
        /\ Done(u) => symbols[u] = Names
        /\ ~Done(u) => ENABLED (ProcessImport(u) \/ ProcessDecl(u))
        /\ pc[u] <= Len(Header)

\* A unit has processed the whole header: all nine imports, both names.
C4_Witness ==
    \E u \in Units :
        /\ Done(u)
        /\ Cardinality(imported[u]) = Len(Imports)
        /\ symbols[u] = Names

\* What a unit observes of the two names: its pointers and the literals
\* they point into, which together give the text each denotes.
Observable(u) == <<device_name[u], preprocessor_name[u], mem[u]>>

\* Any step taken by unit u, importer assignments included.
Acts(u) ==
    \/ ProcessImport(u)
    \/ ProcessDecl(u)
    \/ \E n \in Names : Read(u, n)
    \/ \E lv \in LValues : \E rhs \in RhsOf(lv) : Store(u, lv, rhs)

\* C5: a step taken by one unit, an assignment to its copy included, leaves
\* what every other unit observes of the two names as it was.
C5_NoSharedResource ==
    [][\A w \in Units :
          Observable(w)' # Observable(w) => \A u \in Units \ {w} : ~Acts(u)]_vars

\* One unit has reassigned its device_name while another, which has read its
\* own after that, still holds the initial value.
C5_Witness ==
    \E u \in Units, w \in Units :
        /\ u # w
        /\ Done(u) /\ Done(w)
        /\ device_name[u] = NullPtr
        /\ device_name[w] = DeviceNameInit
        /\ observed[w] = DeviceNameInit

\* C6: in every state of a unit that has processed the header,
\* preprocessor_name is "_" followed by device_name, and the two are never
\* equal to each other.
C6_PreprocessorIsUnderscoreDevice ==
    \A u \in Units :
        Done(u) =>
            /\ Denotes(u, preprocessor_name[u])
                   = <<"_">> \o Denotes(u, device_name[u])
            /\ Denotes(u, preprocessor_name[u]) # Denotes(u, device_name[u])
            /\ preprocessor_name[u] # device_name[u]

\* C7: in every state of a unit that has processed the header, both names
\* are non-null and denote non-empty strings, and so is whatever a consumer
\* has read.
C7_NonNullNonEmpty ==
    \A u \in Units :
        Done(u) =>
            /\ \A n \in Names :
                   /\ ValueOf(u, n) # NullPtr
                   /\ ValueOf(u, n).obj \in DOMAIN mem[u]
                   /\ Denotes(u, ValueOf(u, n)) # <<>>
            /\ observed[u] # None =>
                   /\ observed[u] # NullPtr
                   /\ observed[u].obj \in DOMAIN mem[u]
                   /\ Denotes(u, observed[u]) # <<>>

=============================================================================
